---- MODULE Spec2Model ----
(***************************************************************************)
(* A model of oo.js: extend, deepExtend, inherit, traverse and objectify,  *)
(* over an explicit JavaScript heap (objects, arrays and functions with    *)
(* own properties, enumerability and a prototype link).                    *)
(***************************************************************************)
EXTENDS Integers, Sequences, FiniteSets, TLC

\* heap    the objects, by identity (a reference is an index into heap)
\* child   the value the caller holds as the child (the last result)
\* parents the parents the caller merges from
\* opts    the options object the caller passes
\* hist    the calls made so far
\* heap0   the heap before the first call, pre the heap before the last call
\* last    the last call: its arguments, result and error
VARIABLES heap, child, parents, opts, hist, heap0, pre, last

vars == <<heap, child, parents, opts, hist, heap0, pre, last>>

(***************************************************************************)
(* Bounds of the model.                                                    *)
(***************************************************************************)
\* calls of extend / deepExtend in one behaviour
MaxCalls == 2
\* longest array among the inputs
MaxArrLen == 2
\* calls of inherit in one behaviour
MaxInherits == 2
\* longest path handed to traverse / objectify
MaxPath == 2

(***************************************************************************)
(* JavaScript values.  A property slot holds Absent when the object has no *)
(* such own property; every read turns Absent into undefined.              *)
(***************************************************************************)
Absent == [t |-> "absent", v |-> 0]
Undef  == [t |-> "undef", v |-> 0]
NullV  == [t |-> "null", v |-> 0]
Num(n) == [t |-> "num", v |-> n]
Ref(i) == [t |-> "ref", v |-> i]

\* property names; "a" and "b" are the data / method names of the inputs
Keys    == {"a", "b"}
AllKeys == {"a", "b", "constructor", "__super__", "prototype"}
\* enumeration order of named own properties (insertion order in the inputs)
KeyOrder == <<"constructor", "a", "b", "__super__", "prototype">>

\* a property key: a name, or an array index (ix = JavaScript index + 1)
NameKey(s) == [nm |-> s, ix |-> 0]
IdxKey(i)  == [nm |-> "", ix |-> i]

EmptyProps == [k \in AllKeys |-> Absent]

\* {} / [] / function objects; proto = 0 stands for the built-in prototype
NewObj(proto) ==
  [kind |-> "obj", props |-> EmptyProps, hidden |-> {}, elems |-> <<>>, proto |-> proto]
NewArr ==
  [kind |-> "arr", props |-> EmptyProps, hidden |-> {}, elems |-> <<>>, proto |-> 0]

Alloc(h, o) == Append(h, o)

\* typeof
TypeOf(h, v) ==
  CASE v.t \in {"absent", "undef"} -> "undefined"
    [] v.t = "null" -> "object"
    [] v.t = "num"  -> "number"
    [] OTHER -> IF h[v.v].kind = "fun" THEN "function" ELSE "object"

IsArray(h, v) == v.t = "ref" /\ h[v.v].kind = "arr"

\* ToBoolean
Truthy(v) == v.t = "ref" \/ (v.t = "num" /\ v.v # 0)

\* the own property slot of object id
Own(h, id, key) ==
  IF key.ix > 0
  THEN IF key.ix <= Len(h[id].elems) THEN h[id].elems[key.ix] ELSE Absent
  ELSE h[id].props[key.nm]

\* object[key]: own property first, then the prototype chain
RECURSIVE Get(_, _, _)
Get(h, id, key) ==
  LET o == Own(h, id, key) IN
  IF o.t # "absent" THEN o
  ELSE IF h[id].proto # 0 THEN Get(h, h[id].proto, key) ELSE Undef

\* object[key] = v: always creates or updates an own property
Set(h, id, key, v) ==
  IF key.ix = 0
  THEN [h EXCEPT ![id].props[key.nm] = v]
  ELSE LET e == h[id].elems
           n == Len(e)
       IN IF key.ix <= n
          THEN [h EXCEPT ![id].elems[key.ix] = v]
          ELSE [h EXCEPT ![id].elems =
                  e \o [i \in 1..(key.ix - n) |-> IF i = key.ix - n THEN v ELSE Absent]]

\* array.push(v)
Push(h, id, v) == [h EXCEPT ![id].elems = Append(@, v)]

\* for (key in object): own enumerable keys (indices first), then inherited
\* enumerable keys that no own property shadows
RECURSIVE ForIn(_, _)
ForIn(h, id) ==
  LET idx   == SelectSeq([i \in 1..Len(h[id].elems) |-> IdxKey(i)],
                         LAMBDA k : Own(h, id, k).t # "absent")
      names == SelectSeq([i \in 1..Len(KeyOrder) |-> NameKey(KeyOrder[i])],
                         LAMBDA k : Own(h, id, k).t # "absent" /\ k.nm \notin h[id].hidden)
      up    == IF h[id].proto = 0 THEN <<>>
               ELSE SelectSeq(ForIn(h, h[id].proto),
                              LAMBDA k : Own(h, id, k).t = "absent")
  IN idx \o names \o up

\* for (key in v) for any value: null, undefined and numbers enumerate nothing
ForInVal(h, v) == IF v.t = "ref" THEN ForIn(h, v.v) ELSE <<>>

(***************************************************************************)
(* extend (oo.js 20-46)                                                    *)
(***************************************************************************)
NoOptions == [overwrite |-> FALSE, copyOnWrite |-> FALSE]

\* a ShouldMerge that forgets the identity test
ShouldMerge_IgnoresIdentity(h, pv, cv) == TypeOf(h, pv) # "undefined"

\* lines 28 / 81: the property is merged unless undefined or identical
ShouldMerge(h, pv, cv) == TypeOf(h, pv) # "undefined" /\ pv # cv

\* a LeafWrite that always takes the parent's value
LeafWrite_AlwaysParent(h, dst, prop, pv, o) == Set(h, dst, prop, pv)

\* lines 42 / 141: keep a defined value of dst unless overwrite is set
LeafWrite(h, dst, prop, pv, o) ==
  LET dv == Get(h, dst, prop) IN
  Set(h, dst, prop, IF ~o.overwrite /\ TypeOf(h, dv) # "undefined" THEN dv ELSE pv)

RECURSIVE Extend(_, _, _, _)
RECURSIVE ExtendLoop(_, _, _, _, _, _)

\* lines 31-40 / 85-92: the object written to, cloning child on first use
\* (copy = 0 while child_copy is undefined)
WriteTarget(h, c, o, copy) ==
  IF o.copyOnWrite
  THEN IF copy # 0 THEN [h |-> h, r |-> copy]
       ELSE Extend(Alloc(h, NewObj(0)), Len(h) + 1, Ref(c), NoOptions)
  ELSE [h |-> h, r |-> c]

ExtendLoop(h, c, p, o, keys, copy) ==
  IF keys = <<>> THEN [h |-> h, r |-> IF copy # 0 THEN copy ELSE c]
  ELSE LET prop == Head(keys)
           pv   == Get(h, p.v, prop)
           cv   == Get(h, c, prop)
       IN IF ShouldMerge(h, pv, cv)
          THEN LET t == WriteTarget(h, c, o, copy)
               IN ExtendLoop(LeafWrite(t.h, t.r, prop, pv, o), c, p, o, Tail(keys),
                             IF o.copyOnWrite THEN t.r ELSE copy)
          ELSE ExtendLoop(h, c, p, o, Tail(keys), copy)

\* extend(child, parent, options): c an object id, p any value
Extend(h, c, p, o) == ExtendLoop(h, c, p, o, ForInVal(h, p), 0)

(***************************************************************************)
(* deepExtend (oo.js 72-153)                                               *)
(***************************************************************************)
\* a RecurseCase that never recurses
RecurseCase_Never(h, pv, dv) == FALSE

\* lines 95-98: parent[prop] is a non-null, non-array object and dst[prop]
\* has the same typeof
RecurseCase(h, pv, dv) ==
  /\ TypeOf(h, pv) = "object"
  /\ pv # NullV
  /\ ~IsArray(h, pv)
  /\ TypeOf(h, pv) = TypeOf(h, dv)

\* a ResetsArray that also replaces an array of the child
ResetsArray_Always(h, dv, o) == TRUE

\* lines 118-123: dst[prop] is replaced by a new [] first
ResetsArray(h, dv, o) ==
  ~IsArray(h, dv) /\ (TypeOf(h, dv) = "undefined" \/ dv = NullV \/ o.overwrite)

RECURSIVE DeepExtend(_, _, _, _)
RECURSIVE DeepExtendLoop(_, _, _, _, _, _)
RECURSIVE PushLoop(_, _, _, _, _, _, _)

\* lines 131-135: push a deepExtend({}, parent[prop][i]) for every i < ii
PushLoop(h, dst, pid, prop, i, ii, o) ==
  IF i >= ii THEN h
  ELSE LET target == Get(h, dst, prop)
           h1     == Alloc(h, NewObj(0))
           e      == Get(h1, Get(h1, pid, prop).v, IdxKey(i + 1))
           r      == DeepExtend(h1, Len(h) + 1, e, o)
       IN PushLoop(Push(r.h, target.v, Ref(r.r)), dst, pid, prop, i + 1, ii, o)

\* lines 102-103: dst[prop] = dst[prop] || new parent[prop].constructor();
\*                dst[prop] = deepExtend(dst[prop], parent[prop], options)
\* (the objects of the inputs are plain, so the constructor is Object)
RecurseInto(h, dst, prop, pv, o) ==
  LET dv == Get(h, dst, prop)
      h1 == IF Truthy(dv) THEN Set(h, dst, prop, dv)
            ELSE Set(Alloc(h, NewObj(0)), dst, prop, Ref(Len(h) + 1))
      r  == DeepExtend(h1, Get(h1, dst, prop).v, pv, o)
  IN Set(r.h, dst, prop, Ref(r.r))

\* lines 118-137: the array case
MergeArray(h, dst, pid, prop, pv, o) ==
  LET dv == Get(h, dst, prop)
      h1 == IF ResetsArray(h, dv, o)
            THEN Set(Alloc(h, NewArr), dst, prop, Ref(Len(h) + 1))
            ELSE h
  IN IF IsArray(h1, Get(h1, dst, prop))
     THEN PushLoop(h1, dst, pid, prop, 0, Len(h1[pv.v].elems), o)
     ELSE h1

DeepExtendLoop(h, c, p, o, keys, copy) ==
  IF keys = <<>> THEN [h |-> h, r |-> IF copy # 0 THEN copy ELSE c]
  ELSE LET prop == Head(keys)
           pv   == Get(h, p.v, prop)
           cv   == Get(h, c, prop)
       IN IF ShouldMerge(h, pv, cv)
          THEN LET t  == WriteTarget(h, c, o, copy)
                   dv == Get(t.h, t.r, prop)
                   h2 == IF RecurseCase(t.h, pv, dv)
                         THEN RecurseInto(t.h, t.r, prop, pv, o)
                         ELSE IF IsArray(t.h, pv)
                              THEN MergeArray(t.h, t.r, p.v, prop, pv, o)
                              ELSE LeafWrite(t.h, t.r, prop, pv, o)
               IN DeepExtendLoop(h2, c, p, o, Tail(keys),
                                 IF o.copyOnWrite THEN t.r ELSE copy)
          ELSE DeepExtendLoop(h, c, p, o, Tail(keys), copy)

\* deepExtend(child, parent, options): c an object id, p any value
DeepExtend(h, c, p, o) == DeepExtendLoop(h, c, p, o, ForInVal(h, p), 0)

(***************************************************************************)
(* Inputs: a value together with the objects it is built from, as a heap   *)
(* fragment whose references are relative to the fragment.                 *)
(***************************************************************************)
T(v) == [v |-> v, frag |-> <<>>]

ShiftVal(v, d) == IF v.t = "ref" THEN Ref(v.v + d) ELSE v

ShiftObj(ob, d) ==
  [ob EXCEPT !.props = [k \in AllKeys |-> ShiftVal(ob.props[k], d)],
             !.elems = [i \in 1..Len(ob.elems) |-> ShiftVal(ob.elems[i], d)],
             !.proto = IF ob.proto = 0 THEN 0 ELSE ob.proto + d]

Shift(frag, d) == [i \in 1..Len(frag) |-> ShiftObj(frag[i], d)]

\* the object literal {a: f.a, b: f.b}
MkObj(f) ==
  LET da == 1
      db == 1 + Len(f["a"].frag)
      root == [NewObj(0) EXCEPT !.props["a"] = ShiftVal(f["a"].v, da),
                                !.props["b"] = ShiftVal(f["b"].v, db)]
  IN [v |-> Ref(1), frag |-> <<root>> \o Shift(f["a"].frag, da) \o Shift(f["b"].frag, db)]

\* the array literal [s[1], ..., s[n]]
RECURSIVE MkArr(_)
MkArr(s) ==
  IF s = <<>> THEN [v |-> Ref(1), frag |-> <<NewArr>>]
  ELSE LET front == MkArr(SubSeq(s, 1, Len(s) - 1))
           e     == s[Len(s)]
           d     == Len(front.frag)
       IN [v |-> Ref(1),
           frag |-> [front.frag EXCEPT ![1].elems = Append(@, ShiftVal(e.v, d))]
                    \o Shift(e.frag, d)]

Load(h, tv) == [h |-> h \o Shift(tv.frag, Len(h)), v |-> ShiftVal(tv.v, Len(h))]

ObjsOver(S) == {MkObj(f) : f \in [Keys -> S]}
SeqsUpTo(S, n) == UNION {[1..m -> S] : m \in 0..n}
ArrsOver(S) == {MkArr(s) : s \in SeqsUpTo(S, MaxArrLen)}

(***************************************************************************)
(* The inputs of the merge operations.  Each family is a set of            *)
(* [c |-> child, ps |-> parents]; the objects of one input share nothing   *)
(* with the objects of another.  Numbers tell the inputs apart: the child  *)
(* is built from 1, the parents from 2 and 3 (the flat family mixes them). *)
(***************************************************************************)
FlatVals == {T(Absent), T(Undef), T(NullV), T(Num(1)), T(Num(2))}

Inner(n)    == ObjsOver({T(Absent), T(Num(n))})
Deeper(n)   == MkObj([k \in Keys |-> IF k = "a" THEN MkObj([j \in Keys |-> T(Num(n))])
                                     ELSE T(Absent)])
RootVals(n) == {T(Absent), T(NullV), T(Num(n)), Deeper(n)} \cup Inner(n)

Elems(n)    == {T(Num(n)),
                MkObj([k \in Keys |-> T(Num(n))]),
                MkObj([k \in Keys |-> IF k = "a" THEN MkObj([j \in Keys |-> T(Num(n))])
                                      ELSE T(Absent)])}
Arrs(n)     == ArrsOver(Elems(n))

\* {a: x, b: y}
AB(x, y) == MkObj([k \in Keys |-> IF k = "a" THEN x ELSE y])

FlatInputs ==
  {[c |-> c, ps |-> <<p>>] : c \in ObjsOver(FlatVals), p \in ObjsOver(FlatVals)}

NullishInputs ==
  {[c |-> c, ps |-> <<T(NullV), T(Undef)>>] : c \in Inner(1)}

NestedInputs ==
  {[c |-> AB(x, y), ps |-> <<AB(p, T(Absent)), AB(r, T(Absent))>>] :
     x \in RootVals(1), y \in {T(Absent), T(Num(1))},
     p \in RootVals(2) \ {T(Absent)},
     r \in (Inner(3) \ {AB(T(Absent), T(Absent))}) \cup {Deeper(3)}}

ArrayInputs ==
  {[c |-> AB(x, T(Absent)), ps |-> <<AB(p, T(Absent))>>] :
     x \in Arrs(1) \cup {T(Absent), T(NullV), T(Num(1)), AB(T(Num(1)), T(Absent))},
     p \in Arrs(2) \cup {AB(T(Absent), T(Num(2)))}}

MergeInputs == FlatInputs \cup NullishInputs \cup NestedInputs \cup ArrayInputs

Policies == [overwrite : BOOLEAN, copyOnWrite : BOOLEAN]

\* the heap holding the child followed by the parents
RECURSIVE LoadAll(_, _)
LoadAll(h, ts) ==
  IF ts = <<>> THEN [h |-> h, vs |-> <<>>]
  ELSE LET one  == Load(h, Head(ts))
           rest == LoadAll(one.h, Tail(ts))
       IN [h |-> rest.h, vs |-> <<one.v>> \o rest.vs]

\* an index argument that was not passed (typeof index === 'undefined')
NoIndex == -1

NoCall ==
  [op |-> "none", child |-> Undef, parent |-> Undef, result |-> Undef,
   hasPath |-> FALSE, path |-> <<>>, index |-> NoIndex,
   ctors |-> [isArray |-> FALSE, length |-> 0], deep |-> FALSE, err |-> "none"]

InitMerge ==
  \E inp \in MergeInputs, o \in Policies :
    LET all == LoadAll(<<>>, <<inp.c>> \o inp.ps) IN
    /\ heap = all.h
    /\ child = Head(all.vs)
    /\ parents = Tail(all.vs)
    /\ opts = o
    /\ hist = <<>>
    /\ heap0 = all.h
    /\ pre = all.h
    /\ last = NoCall

\* result = extend(child, parents[i], opts); the caller goes on with result
CallExtend ==
  /\ Len(hist) < MaxCalls
  /\ \E i \in 1..Len(parents) :
       LET r == Extend(heap, child.v, parents[i], opts) IN
       /\ heap' = r.h
       /\ child' = Ref(r.r)
       /\ pre' = heap
       /\ last' = [NoCall EXCEPT !.op = "extend", !.child = child,
                                  !.parent = parents[i], !.result = Ref(r.r)]
       /\ hist' = Append(hist, [op |-> "extend", child |-> child, parent |-> parents[i]])
  /\ UNCHANGED <<parents, opts, heap0>>

\* result = deepExtend(child, parents[i], opts)
CallDeepExtend ==
  /\ Len(hist) < MaxCalls
  /\ \E i \in 1..Len(parents) :
       LET r == DeepExtend(heap, child.v, parents[i], opts) IN
       /\ heap' = r.h
       /\ child' = Ref(r.r)
       /\ pre' = heap
       /\ last' = [NoCall EXCEPT !.op = "deepExtend", !.child = child,
                                  !.parent = parents[i], !.result = Ref(r.r)]
       /\ hist' = Append(hist, [op |-> "deepExtend", child |-> child, parent |-> parents[i]])
  /\ UNCHANGED <<parents, opts, heap0>>

NextMerge == CallExtend \/ CallDeepExtend

SpecMerge == InitMerge /\ [][NextMerge]_vars

(***************************************************************************)
(* Vocabulary of the properties.                                           *)
(***************************************************************************)
\* the objects an object refers to
Refs(ob) ==
  {ob.props[k].v : k \in {j \in AllKeys : ob.props[j].t = "ref"}}
    \cup {ob.elems[i].v : i \in {j \in 1..Len(ob.elems) : ob.elems[j].t = "ref"}}
    \cup (IF ob.proto = 0 THEN {} ELSE {ob.proto})

RECURSIVE ReachSet(_, _, _)
ReachSet(h, frontier, seen) ==
  IF frontier = {} THEN seen
  ELSE ReachSet(h, (UNION {Refs(h[i]) : i \in frontier}) \ (seen \cup frontier),
                seen \cup frontier)

\* the objects reachable from a value
Reach(h, v) == IF v.t = "ref" THEN ReachSet(h, {v.v}, {}) ELSE {}

\* v[k] for a named property, undefined when v is not an object
Field(h, v, k) == IF v.t = "ref" THEN Get(h, v.v, NameKey(k)) ELSE Undef

IsPlain(h, v) == v.t = "ref" /\ h[v.v].kind = "obj"

\* v is built from scalars and plain objects only
NoArrays(h, v) == \A id \in Reach(h, v) : h[id].kind = "obj" /\ h[id].elems = <<>>

\* the value v1 of heap h1 and the value v2 of heap h2 have the same contents
RECURSIVE SameContent(_, _, _, _)
SameContent(h1, v1, h2, v2) ==
  IF v1.t = "ref" /\ v2.t = "ref"
  THEN /\ h1[v1.v].kind = h2[v2.v].kind
       /\ Len(h1[v1.v].elems) = Len(h2[v2.v].elems)
       /\ \A i \in 1..Len(h1[v1.v].elems) :
            SameContent(h1, Get(h1, v1.v, IdxKey(i)), h2, Get(h2, v2.v, IdxKey(i)))
       /\ \A k \in AllKeys : SameContent(h1, Field(h1, v1, k), h2, Field(h2, v2, k))
  ELSE v1 = v2

IsMerge == last.op \in {"extend", "deepExtend"}

\* some key of the parent is defined and differs from the child's
SomethingToMerge ==
  /\ last.parent.t = "ref"
  /\ \E i \in 1..Len(ForIn(pre, last.parent.v)) :
       LET key == ForIn(pre, last.parent.v)[i]
           pk  == Get(pre, last.parent.v, key)
       IN pk.t # "undef" /\ pk # Get(pre, last.child.v, key)

\* result holds the shallow merge of child and parent as they were
ShallowMerged ==
  \A k \in AllKeys :
    LET pk == Field(pre, last.parent, k)
        ck == Field(pre, last.child, k)
    IN Field(heap, last.result, k) =
         IF pk = Undef THEN ck
         ELSE IF ~opts.overwrite /\ ck # Undef THEN ck ELSE pk

\* rv holds the recursive key-wise merge of cv and pv as they were; with
\* nullIsAbsent, a null of the child under a plain object of the parent
\* counts as absent
RECURSIVE DeepMerged(_, _, _, _)
DeepMerged(rv, cv, pv, nullIsAbsent) ==
  /\ rv.t = "ref"
  /\ \A k \in AllKeys :
       LET pk == Field(pre, pv, k)
           ck == Field(pre, cv, k)
           rk == Field(heap, rv, k)
       IN IF pk = Undef THEN SameContent(heap, rk, pre, ck)
          ELSE IF IsPlain(pre, pk) /\ IsPlain(pre, ck)
               THEN IF pk = ck THEN SameContent(heap, rk, pre, ck)
                    ELSE DeepMerged(rk, ck, pk, nullIsAbsent)
          ELSE IF nullIsAbsent /\ IsPlain(pre, pk) /\ ck = NullV
               THEN SameContent(heap, rk, pre, pk)
          ELSE IF ~opts.overwrite /\ ck # Undef
               THEN SameContent(heap, rk, pre, ck)
               ELSE SameContent(heap, rk, pre, pk)

(***************************************************************************)
(* C2.  extend without copyOnWrite returns child, holding for every key    *)
(* the child's value when the parent's is undefined, or when overwrite is  *)
(* off and the child's is defined, and the parent's value otherwise; no    *)
(* other object changes, and a null or undefined parent changes nothing.   *)
(***************************************************************************)
C2_ShallowMerge ==
  (last.op = "extend" /\ ~opts.copyOnWrite) =>
    /\ last.result = last.child
    /\ ShallowMerged
    /\ Len(heap) = Len(pre)
    /\ \A id \in 1..Len(pre) : id # last.child.v => heap[id] = pre[id]
    /\ last.parent.t # "ref" => heap = pre

\* extend({a:1}, {a:2, b:..}) kept a and filled b; and a call with overwrite
\* replaced a
C2_Witness ==
  /\ last.op = "extend" /\ ~opts.copyOnWrite /\ ~opts.overwrite
  /\ Field(pre, last.child, "a") = Num(1)
  /\ Field(pre, last.parent, "a") = Num(2)
  /\ Field(pre, last.child, "b") = Undef
  /\ Field(pre, last.parent, "b") = Num(2)
  /\ Field(heap, last.result, "a") = Num(1)
  /\ Field(heap, last.result, "b") = Num(2)

(***************************************************************************)
(* C1.  With copyOnWrite, extend and deepExtend leave the original child   *)
(* and every object and array reachable from it as they were, and when a   *)
(* key is written the result is another object than child, holding the     *)
(* merged contents.                                                        *)
(***************************************************************************)
C1_CopyOnWriteIsolation ==
  (IsMerge /\ opts.copyOnWrite) =>
    /\ \A id \in Reach(pre, last.child) : heap[id] = pre[id]
    /\ SomethingToMerge =>
         /\ last.result # last.child
         /\ last.op = "extend" => ShallowMerged
         /\ (last.op = "deepExtend" /\ NoArrays(pre, last.child)
               /\ NoArrays(pre, last.parent)) =>
              DeepMerged(last.result, last.child, last.parent, TRUE)

(***************************************************************************)
(* C3.  For a child and a parent built from scalars and plain objects,     *)
(* deepExtend returns the recursive key-wise merge: plain objects on both  *)
(* sides are merged recursively; elsewhere the child's value is kept when  *)
(* overwrite is off and it is not undefined, and the parent's value is     *)
(* taken otherwise.  As claimed, a null of the child is kept.              *)
(***************************************************************************)
C3_DeepMergeKeepsNull ==
  (last.op = "deepExtend" /\ NoArrays(pre, last.child) /\ NoArrays(pre, last.parent)
     /\ last.parent.t = "ref") =>
    DeepMerged(last.result, last.child, last.parent, FALSE)

\* C3 as amended: the same, except that a null of the child facing a plain
\* object of the parent is replaced by a copy of that object, whatever
\* overwrite says
C3_DeepMerge ==
  (last.op = "deepExtend" /\ NoArrays(pre, last.child) /\ NoArrays(pre, last.parent)
     /\ last.parent.t = "ref") =>
    DeepMerged(last.result, last.child, last.parent, TRUE)

\* deepExtend({a:{a:1}}, {a:{b:2}}) gave {a:{a:1,b:2}}
C3_Witness ==
  /\ last.op = "deepExtend" /\ NoArrays(pre, last.child) /\ NoArrays(pre, last.parent)
  /\ IsPlain(pre, Field(pre, last.child, "a"))
  /\ IsPlain(pre, Field(pre, last.parent, "a"))
  /\ Field(pre, Field(pre, last.child, "a"), "a") = Num(1)
  /\ Field(pre, Field(pre, last.child, "a"), "b") = Undef
  /\ Field(pre, Field(pre, last.parent, "a"), "b") = Num(2)
  /\ Field(heap, Field(heap, last.result, "a"), "a") = Num(1)
  /\ Field(heap, Field(heap, last.result, "a"), "b") = Num(2)

(***************************************************************************)
(* C4.  Arrays are appended to.  Where parent[k] is an array of length n   *)
(* and child[k] another array of length m (m = 0 when child[k] is absent   *)
(* or null), one deepExtend leaves the first m elements in place and       *)
(* appends n new objects; after j deepExtend calls with the same parent    *)
(* the length is m + j*n.                                                  *)
(***************************************************************************)
ArrLen(h, v) == IF IsArray(h, v) THEN Len(h[v.v].elems) ELSE 0

\* k is a key the claim is about: an array in the parent, and another array,
\* nothing or null in the child
ArrayKey(h, c, p, k) ==
  /\ IsArray(h, Field(h, p, k))
  /\ \/ IsArray(h, Field(h, c, k)) /\ Field(h, c, k) # Field(h, p, k)
     \/ Field(h, c, k) \in {Undef, NullV}

SameParentDeepCalls ==
  /\ hist # <<>>
  /\ \A i \in 1..Len(hist) : hist[i].op = "deepExtend" /\ hist[i].parent = hist[1].parent

C4_ArraysAppend ==
  /\ last.op = "deepExtend" =>
       \A k \in Keys :
         ArrayKey(pre, last.child, last.parent, k) =>
           LET ck == Field(pre, last.child, k)
               rk == Field(heap, last.result, k)
               m  == ArrLen(pre, ck)
               n  == ArrLen(pre, Field(pre, last.parent, k))
           IN /\ IsArray(heap, rk)
              /\ Len(heap[rk.v].elems) = m + n
              /\ \A i \in 1..m : heap[rk.v].elems[i] = pre[ck.v].elems[i]
              /\ \A i \in (m + 1)..(m + n) :
                   heap[rk.v].elems[i].t = "ref" /\ heap[rk.v].elems[i].v > Len(pre)
  /\ SameParentDeepCalls =>
       \A k \in Keys :
         ArrayKey(heap0, hist[1].child, hist[1].parent, k) =>
           ArrLen(heap, Field(heap, child, k)) =
             ArrLen(heap0, Field(heap0, hist[1].child, k))
               + Len(hist) * ArrLen(heap0, Field(heap0, hist[1].parent, k))

\* two deepExtend calls with the same parent grew a non-empty array twice
C4_Witness ==
  /\ SameParentDeepCalls /\ Len(hist) = 2
  /\ ArrayKey(heap0, hist[1].child, hist[1].parent, "a")
  /\ ArrLen(heap0, Field(heap0, hist[1].child, "a")) = 1
  /\ ArrLen(heap0, Field(heap0, hist[1].parent, "a")) = 2
  /\ ArrLen(heap, Field(heap, child, "a")) = 5

(***************************************************************************)
(* C5.  When every key of the parent is undefined or identical to the      *)
(* child's, extend and deepExtend create no clone, write nothing and       *)
(* return child, whatever the options.                                     *)
(***************************************************************************)
C5_NothingToMerge ==
  (IsMerge /\ ~SomethingToMerge) => (heap = pre /\ last.result = last.child)

\* a copyOnWrite call whose parent holds a defined value identical to the
\* child's returned the child itself
C5_Witness ==
  /\ IsMerge /\ opts.copyOnWrite /\ ~SomethingToMerge
  /\ \E k \in Keys : /\ IsPlain(pre, Field(pre, last.parent, k))
                     /\ Field(pre, last.parent, k) = Field(pre, last.child, k)
  /\ last.result = last.child

(***************************************************************************)
(* C9.  deepExtend copies the parent's structure: when child and parent    *)
(* share no object before the call, no plain object reachable from the     *)
(* result is reachable from the parent afterwards.                         *)
(***************************************************************************)
C9_NoSharingWithParent ==
  (last.op = "deepExtend" /\ Reach(pre, last.child) \cap Reach(pre, last.parent) = {}) =>
    \A id \in Reach(heap, last.result) \cap Reach(heap, last.parent) :
      heap[id].kind # "obj"

(***************************************************************************)
(* C10.  In a sequence of deepExtend calls without copyOnWrite that merge  *)
(* distinct parents into the same child, every parent keeps its contents   *)
(* at every depth.                                                         *)
(***************************************************************************)
DistinctParentDeepCalls ==
  /\ ~opts.copyOnWrite
  /\ \A i \in 1..Len(hist) : hist[i].op = "deepExtend"
  /\ \A i, j \in 1..Len(hist) : i # j => hist[i].parent # hist[j].parent

C10_ParentsUntouched ==
  DistinctParentDeepCalls =>
    \A i \in 1..Len(parents) : \A id \in Reach(heap0, parents[i]) : heap[id] = heap0[id]

(***************************************************************************)
(* inherit (oo.js 163-195)                                                 *)
(***************************************************************************)
\* ProtoMergeOptions without overwrite
ProtoMergeOptions_NoOverwrite == [overwrite |-> FALSE, copyOnWrite |-> FALSE]

\* line 191: the options of the merge of child.prototype into the new object
ProtoMergeOptions == [overwrite |-> TRUE, copyOnWrite |-> FALSE]

\* lines 165-174: copy the parent's members to the child
CopyStatics(h, c, p, deep) ==
  IF deep THEN DeepExtend(h, c, Ref(p), NoOptions) ELSE Extend(h, c, Ref(p), NoOptions)

\* lines 177-180 and `new ctor`: an object whose prototype is parent.prototype
\* and whose own constructor is child
NewCtor(h, c, p) ==
  LET pp == Get(h, p, NameKey("prototype"))
      h1 == Alloc(h, NewObj(IF pp.t = "ref" THEN pp.v ELSE 0))
  IN Set(h1, Len(h) + 1, NameKey("constructor"), Ref(c))

\* inherit(child, parent, options): c and p are function objects
Inherit(h, c, p, deep) ==
  LET h1 == CopyStatics(h, c, p, deep).h
      h2 == NewCtor(h1, c, p)
      e  == Extend(h2, Len(h1) + 1, Get(h2, c, NameKey("prototype")), ProtoMergeOptions)
      h3 == Set(e.h, c, NameKey("prototype"), Ref(e.r))
  IN Set(h3, c, NameKey("__super__"), Ref(p))

\* function F() {}: the function, its prototype object (F.prototype, with the
\* non-enumerable constructor F) at the next index
FunObj(id) ==
  [kind |-> "fun", props |-> [EmptyProps EXCEPT !["prototype"] = Ref(id + 1)],
   hidden |-> {"prototype"}, elems |-> <<>>, proto |-> 0]
ProtoObj(id) ==
  [kind |-> "obj", props |-> [EmptyProps EXCEPT !["constructor"] = Ref(id)],
   hidden |-> {"constructor"}, elems |-> <<>>, proto |-> 0]
\* a method: a function object without members of its own
MethodObj ==
  [kind |-> "fun", props |-> EmptyProps, hidden |-> {}, elems |-> <<>>, proto |-> 0]

\* three classes: class i is the function at Fun(i), its prototype at
\* Fun(i) + 1 and its one method at Fun(i) + 2; then two static objects
Classes == 1..3
Fun(i) == 3 * i - 2
Method(i) == Ref(Fun(i) + 2)
StaticOf(i) == Ref(9 + i)

\* the members a class defines: methods a and b on its prototype, static a
ClassHeap(ma, mb, sa) ==
  LET base == [n \in 1..9 |->
                 IF n % 3 = 1 THEN FunObj(n) ELSE IF n % 3 = 2 THEN ProtoObj(n - 1)
                 ELSE MethodObj]
      st   == [i \in 1..2 |-> [NewObj(0) EXCEPT !.props["b"] = Num(i)]]
      h    == base \o st
  IN [n \in 1..11 |->
        IF n \in 1..9 /\ n % 3 = 1
        THEN [h[n] EXCEPT !.props["a"] = sa[(n + 2) \div 3],
                          !.props["b"] = IF n = 1 THEN Num(1) ELSE Absent]
        ELSE IF n \in 1..9 /\ n % 3 = 2
        THEN [h[n] EXCEPT !.props["a"] = ma[(n + 1) \div 3],
                          !.props["b"] = mb[(n + 1) \div 3]]
        ELSE h[n]]

InitInherit ==
  \E ma \in [Classes -> {Absent, Undef, Ref(0)}],
     mb \in [Classes -> {Absent, Ref(0)}],
     sa \in [Classes -> {Absent, Ref(0)}] :
    /\ ma[1] # Undef /\ mb[1] # Absent /\ mb[3] = Absent
    /\ sa[1] # Absent /\ sa[3] = Absent
    /\ heap = ClassHeap([i \in Classes |-> IF ma[i] = Ref(0) THEN Method(i) ELSE ma[i]],
                        [i \in Classes |-> IF mb[i] = Ref(0) THEN Method(i) ELSE mb[i]],
                        [i \in Classes |-> IF sa[i] = Ref(0) THEN StaticOf(i) ELSE sa[i]])
    /\ child = Undef
    /\ parents = <<>>
    /\ opts = NoOptions
    /\ hist = <<>>
    /\ heap0 = heap
    /\ pre = heap
    /\ last = NoCall

\* inherit(Fc, Fp, {deepExtend: deep}) for two different classes
CallInherit ==
  /\ Len(hist) < MaxInherits
  /\ \E c \in Classes, p \in Classes, deep \in BOOLEAN :
       /\ c # p
       /\ heap' = Inherit(heap, Fun(c), Fun(p), deep)
       /\ pre' = heap
       /\ last' = [NoCall EXCEPT !.op = "inherit", !.child = Ref(Fun(c)),
                                  !.parent = Ref(Fun(p)), !.deep = deep]
       /\ hist' = Append(hist, [op |-> "inherit", child |-> Ref(Fun(c)),
                                parent |-> Ref(Fun(p))])
  /\ UNCHANGED <<child, parents, opts, heap0>>

NextInherit == CallInherit

SpecInherit == InitInherit /\ [][NextInherit]_vars

(***************************************************************************)
(* C6.  After inherit(Child, Parent) an instance of Child resolves every   *)
(* method name to the member Child's prototype defined before the call     *)
(* when it defined one, and to the member of Parent's prototype otherwise; *)
(* the new prototype's constructor is Child, Child.__super__ is Parent,    *)
(* and Parent and Parent.prototype are as they were.                       *)
(***************************************************************************)
\* what a Child instance finds under every m, given the members
\* definedBefore[m] of Child's prototype before the call
Wired(definedBefore) ==
  LET newProto == Field(heap, last.child, "prototype")
      parProto == Field(pre, last.parent, "prototype")
  IN /\ \A m \in Keys :
          Field(heap, newProto, m) =
            IF definedBefore[m] # Undef THEN definedBefore[m]
            ELSE Field(pre, parProto, m)
     /\ Field(heap, newProto, "constructor") = last.child
     /\ Field(heap, last.child, "__super__") = last.parent
     /\ heap[last.parent.v] = pre[last.parent.v]
     /\ heap[parProto.v] = pre[parProto.v]

RECURSIVE TraverseFrom(_, _, _, _)
TraverseFrom(h, ob, path, index) ==
  IF Len(path) = index \/ ~Truthy(ob) THEN ob
  ELSE IF TypeOf(h, ob) = "object"
       THEN TraverseFrom(h, IF index < Len(path) THEN Field(h, ob, path[index + 1])
                            ELSE Undef,
                         path, index + 1)
       ELSE NullV

\* traverse(object, path, index): lines 208-212 default a missing index
\* (path is always an array here, so !path is false)
Traverse(h, ob, path, index) ==
  TraverseFrom(h, ob, path, IF index = NoIndex THEN Len(path) ELSE index)

Paths == SeqsUpTo(Keys, MaxPath)

InitTraverse ==
  \E c \in ObjsOver(RootVals(1)) :
    LET all == Load(<<>>, c) IN
    /\ heap = all.h
    /\ child = all.v
    /\ parents = <<>>
    /\ opts = NoOptions
    /\ hist = <<>>
    /\ heap0 = all.h
    /\ pre = all.h
    /\ last = NoCall

\* traverse(child, path) and traverse(child, path, 0)
CallTraverse ==
  /\ \E path \in Paths, index \in {NoIndex, 0} :
       last' = [NoCall EXCEPT !.op = "traverse", !.child = child, !.hasPath = TRUE,
                              !.path = path, !.index = index,
                              !.result = Traverse(heap, child, path, index)]
  /\ pre' = heap
  /\ UNCHANGED <<heap, child, parents, opts, hist, heap0>>

NextTraverse == CallTraverse

SpecTraverse == InitTraverse /\ [][NextTraverse]_vars

\* the value at the end of path: v itself for the empty path, null once a
\* value that is not an object is met with keys left
RECURSIVE Walk(_, _, _)
Walk(h, v, path) ==
  IF path = <<>> THEN v
  ELSE IF v.t = "ref" /\ h[v.v].kind # "fun"
       THEN Walk(h, Field(h, v, Head(path)), Tail(path))
       ELSE NullV

(***************************************************************************)
(* C7.  traverse(object, path), called with these two arguments, returns   *)
(* object for the empty path, the value at the end of the path when every  *)
(* value on the way is an object, and null when a value that is not an     *)
(* object is met before the path is exhausted.                             *)
(***************************************************************************)
C7_TraverseWalksPath ==
  (last.op = "traverse" /\ last.index = NoIndex) =>
    last.result = Walk(pre, last.child, last.path)

(***************************************************************************)
(* objectify (oo.js 250-291)                                               *)
(***************************************************************************)
\* lines 269-272 / 282-285 for one object: traverse to the parent bag
\* (parrent_object), read its slot child_selector, which throws when the bag
\* is null or undefined, then assign through parent_object, a name nothing
\* declares
ObjectifyOne(h, ob, front) ==
  LET bag == Traverse(h, ob, front, NoIndex) IN
  IF bag.t \in {"undef", "null"} THEN "TypeError" ELSE "ReferenceError"

\* objectify(objects, ast_path, constructors); hasPath is FALSE when the
\* call passes two arguments.  ctors is a function of ctors.length declared
\* parameters or an array of ctors.length functions.  The heap is never
\* written: the result is the error thrown, or "none".
Objectify(h, objects, hasPath, path, ctors) ==
  IF ~hasPath THEN "TypeError"
  ELSE LET front == IF path = <<>> THEN <<>> ELSE SubSeq(path, 1, Len(path) - 1)
       IN IF ~IsArray(h, objects)
          THEN ObjectifyOne(h, objects, front)
          ELSE IF ctors.length = 0 THEN "none"
               ELSE ObjectifyOne(h, Get(h, objects.v, IdxKey(1)), front)

Ctors == [isArray : BOOLEAN, length : 0..2]

InitObjectify ==
  \E c \in ObjsOver(RootVals(1)) \cup ArrsOver(Inner(1)) :
    LET all == Load(<<>>, c) IN
    /\ heap = all.h
    /\ child = all.v
    /\ parents = <<>>
    /\ opts = NoOptions
    /\ hist = <<>>
    /\ heap0 = all.h
    /\ pre = all.h
    /\ last = NoCall

\* objectify(child, path, ctors) and objectify(child, ctors)
CallObjectify ==
  /\ \E hasPath \in BOOLEAN, path \in Paths, ctors \in Ctors :
       /\ hasPath \/ path = <<>>
       /\ last' = [NoCall EXCEPT !.op = "objectify", !.child = child,
                                  !.hasPath = hasPath, !.path = path, !.ctors = ctors,
                                  !.err = Objectify(heap, child, hasPath, path, ctors)]
  /\ pre' = heap
  /\ UNCHANGED <<heap, child, parents, opts, hist, heap0>>

NextObjectify == CallObjectify

SpecObjectify == InitObjectify /\ [][NextObjectify]_vars

(***************************************************************************)
(* C8.  objectify(objects, path, constructors) completes without error     *)
(* and replaces, in the one object or in every object of the array, the    *)
(* value in the slot named by the last key of path, inside the bag the     *)
(* keys before it lead to, by a newly constructed object.                  *)
(***************************************************************************)
\* the slot of ob named by path holds an object created by the call
Objectified(ob, path) ==
  LET bag  == Walk(pre, ob, SubSeq(path, 1, Len(path) - 1))
      slot == Field(heap, bag, path[Len(path)])
  IN slot.t = "ref" /\ slot.v > Len(pre)

C8_ObjectifyReplaces ==
  (last.op = "objectify" /\ last.hasPath /\ last.path # <<>>) =>
    /\ last.err = "none"
    /\ IF IsArray(pre, last.child)
       THEN \A i \in 1..Len(pre[last.child.v].elems) :
              Objectified(pre[last.child.v].elems[i], last.path)
       ELSE Objectified(last.child, last.path)

====
